---- MODULE Spec2Model ----
(***************************************************************************)
(* Control-flow model of the Playwright verification scripts of the        *)
(* Pedro Pathing Visualizer repository.                                    *)
(*                                                                         *)
(* Every script is a table from the source line of a statement to a step   *)
(* record: the kind of the statement, its argument (selector, path,        *)
(* message), the line executed next when it returns (nx), the line         *)
(* executed next when a queried condition is false (alt) and the line of   *)
(* the handler entered when it raises (err).  Line 0 stands for "outside   *)
(* the script": nx = 0 is a return / falling off the end, err = 0 is an    *)
(* exception nothing in the script catches.  The browser and the page are  *)
(* the environment: every call on them either returns or raises, and every *)
(* query returns either answer.                                            *)
(***************************************************************************)
EXTENDS Integers, Sequences, FiniteSets, TLC

VARIABLES
    script,   \* the script being executed, "none" before the first one
    pc,       \* source line of the statement executed next, 0 outside a script
    phase,    \* "idle", "running", "done" (returned), "raised", "exited"
    exc,      \* an exception is pending while a finally block runs
    code,     \* exit status of the script's process once it has ended
    log,      \* the statements executed by the current run, with their results
    open,     \* browsers launched and not closed by browser.close()
    runs,     \* scripts started so far
    storage,  \* localStorage / globals of the page of the browser launched last
    sort,     \* sort mode of the application's file manager, "none" without a page
    deg_val,  \* verify_fix_v2's variable deg_val, in tenths; 0 before it is set
    prev      \* the run before this one when the same script is run again

vars ==
    <<script, pc, phase, exc, code, log, open, runs, storage, sort, deg_val, prev>>

\* Number of scripts executed one after another in one behaviour.
MaxRuns == 2

\* Longest run recorded; no run of a script reaches it (LogWithinBound).
MaxLog == 60

(***************************************************************************)
(* Step constructors.                                                      *)
(***************************************************************************)
St(k, a, role, force, fin, nx, alt, err) ==
    [k |-> k, a |-> a, role |-> role, force |-> force, fin |-> fin,
     nx |-> nx, alt |-> alt, err |-> err]

\* p.chromium.launch(...)
Launch(nx) == St("launch", "chromium", "", FALSE, FALSE, nx, 0, 0)
\* new_context / add_init_script / set_viewport_size
Setup(a, nx) == St("setup", a, "", FALSE, FALSE, nx, 0, 0)
\* page.goto / page.reload
Nav(a, nx, err) == St("goto", a, "", FALSE, FALSE, nx, 0, err)
\* wait_for_selector, locator.wait_for, wait_for_load_state; role "req" when
\* the script needs the state to go on,
\* "opt" when the wait belongs to dialog / loading-screen handling whose
\* handler swallows the timeout
WaitFor(a, role, nx, err) == St("wait", a, role, FALSE, FALSE, nx, 0, err)
\* time.sleep / page.wait_for_timeout
Sleep(nx) == St("sleep", "", "", FALSE, FALSE, nx, 0, 0)
\* keyboard.press, fill, hover, focus, select_option, evaluate, mouse.click,
\* input_value, get_attribute, add_style_tag
Do(a, nx, err) == St("act", a, "", FALSE, FALSE, nx, 0, err)
\* locator.click() / page.click()
Click(a, nx, err) == St("click", a, "", FALSE, FALSE, nx, 0, err)
\* click(force=True)
ForceClick(a, nx, err) == St("click", a, "", TRUE, FALSE, nx, 0, err)
\* if <is_visible() / count() / get_attribute()>: nx when true, alt when false
Ask(a, nx, alt, err) == St("ask", a, "", FALSE, FALSE, nx, alt, err)
\* if locator.count() >= min: the number of matching elements is read from the
\* page and compared; nx when the comparison is true, alt otherwise
Count(a, min, nx, alt, err) ==
    [k |-> "count", a |-> a, role |-> "", force |-> FALSE, fin |-> FALSE,
     nx |-> nx, alt |-> alt, err |-> err, min |-> min]
\* expect(locator).to_...: polls up to its timeout, then raises AssertionError;
\* role "req" / "opt" as for WaitFor
Expect(a, role, nx, err) == St("expect", a, role, FALSE, FALSE, nx, 0, err)
\* if <value read from the page> == <expected>: nx on match, alt on mismatch;
\* err = -1 when the condition is a comparison of Python values that cannot
\* raise
Cmp(a, nx, alt, err) == St("cmp", a, "", FALSE, FALSE, nx, alt, err)
\* <role> = float(locator.input_value()): role names the variable assigned
Read(a, role, nx, err) == St("read", a, role, FALSE, FALSE, nx, 0, err)
\* if abs(deg_val - 180.0) > 0.1: alt when the condition is true, nx otherwise
Test(a, nx, alt) == St("test", a, "", FALSE, FALSE, nx, alt, 0)
\* page.screenshot(path=a); role "ok" for a verification artifact,
\* "fail" for a failure / debug artifact
Shot(a, role, nx, err) == St("shot", a, role, FALSE, FALSE, nx, 0, err)
\* print(a); role "ok" success message, "fail" failure message, "info" other
Say(a, role, nx) == St("say", a, role, FALSE, FALSE, nx, 0, 0)
\* browser.close() on the straight-line path
CloseB(nx) == St("close", "browser", "", FALSE, FALSE, nx, 0, 0)
\* browser.close() in a finally block: a pending exception goes on to err
CloseFin(nx, err) == St("close", "browser", "", FALSE, TRUE, nx, 0, err)
\* return
Ret == St("return", "", "", FALSE, FALSE, 0, 0, 0)
\* exit(1)
ExitP(a) == St("exit", a, "", FALSE, FALSE, 0, 0, 0)
\* raise e
ReRaise(err) == St("raise", "e", "", FALSE, FALSE, 0, 0, err)

(***************************************************************************)
(* src/verify_history.py                                                   *)
(***************************************************************************)
verify_history_start ==
    6 :> Launch(10) @@
    10 :> Setup("add_init_script pedro-settings", 22)

\* the handler of a failed page.goto without its return
verify_history_goto_noreturn ==
    22 :> Nav("http://localhost:5173", 29, 24) @@
    24 :> Say("Failed to load page", "fail", 29) @@
    25 :> Ret

verify_history_goto ==
    22 :> Nav("http://localhost:5173", 29, 24) @@
    24 :> Say("Failed to load page", "fail", 25) @@
    25 :> Ret

verify_history_title ==
    29 :> WaitFor("text=Pedro Pathing Visualizer", "req", 35, 31) @@
    31 :> Say("Timeout waiting for title", "fail", 32) @@
    32 :> Shot("debug_timeout.png", "fail", 33, 0) @@
    33 :> Ret

verify_history_actions ==
    35 :> Say("App loaded", "info", 39) @@
    39 :> Do("press Escape", 40, 45) @@
    40 :> Sleep(45) @@
    45 :> Say("Clicking Add Path...", "info", 48) @@
    48 :> Sleep(49) @@
    49 :> Click("button Add Path after start", 50, 55) @@
    50 :> Sleep(51) @@
    51 :> Say("Clicking Add Wait...", "info", 52) @@
    52 :> Click("button Add Wait after start", 53, 55) @@
    53 :> Sleep(59) @@
    55 :> Say("Failed to click buttons", "fail", 56) @@
    56 :> Shot("debug_click_fail.png", "fail", 59, 0)

\* the handler of a failed History click without its return
verify_history_dropdown_noreturn ==
    59 :> Say("Opening History Dropdown...", "info", 61) @@
    61 :> Click("button History", 62, 64) @@
    62 :> Sleep(69) @@
    64 :> Say("Failed to open history dropdown", "fail", 65) @@
    65 :> Shot("debug_dropdown_fail.png", "fail", 69, 0) @@
    66 :> Ret @@
    69 :> Shot("verification_history.png", "ok", 70, 0) @@
    70 :> Say("Screenshot taken: verification_history.png", "ok", 72) @@
    72 :> CloseB(0)

verify_history_dropdown ==
    59 :> Say("Opening History Dropdown...", "info", 61) @@
    61 :> Click("button History", 62, 64) @@
    62 :> Sleep(69) @@
    64 :> Say("Failed to open history dropdown", "fail", 65) @@
    65 :> Shot("debug_dropdown_fail.png", "fail", 66, 0) @@
    66 :> Ret @@
    69 :> Shot("verification_history.png", "ok", 70, 0) @@
    70 :> Say("Screenshot taken: verification_history.png", "ok", 72) @@
    72 :> CloseB(0)

verify_history ==
    verify_history_start @@ verify_history_goto @@ verify_history_title @@
    verify_history_actions @@ verify_history_dropdown

(***************************************************************************)
(* src/verify_contact.py                                                   *)
(***************************************************************************)
verify_contact_section ==
    10 :> Nav("http://localhost:4173/", 13, 66) @@
    13 :> Do("add_style_tag hide loading screen", 19, 66) @@
    19 :> Expect("label Settings visible", "req", 20, 66) @@
    20 :> Click("label Settings", 23, 66) @@
    23 :> Expect("dialog visible", "req", 27, 66) @@
    27 :> Expect("text Credits & Legal visible", "req", 30, 66) @@
    30 :> Click("text Credits & Legal", 34, 66) @@
    34 :> Sleep(37) @@
    37 :> Expect("heading Contact & Support visible", "req", 41, 66) @@
    41 :> Expect("link GitHub Issues visible", "req", 42, 66) @@
    42 :> Expect("link GitHub Issues href", "req", 46, 66) @@
    46 :> Expect("text Discord: mallen20 visible", "req", 50, 66) @@
    50 :> Expect("link allenmc220@gmail.com visible", "req", 51, 66) @@
    51 :> Expect("link allenmc220@gmail.com href", "req", 54, 66) @@
    54 :> Shot("verification_settings.png", "ok", 64, 66)

verify_contact_main ==
    58 :> Launch(61) @@
    61 :> Setup("set_viewport_size 1280x720", 10) @@
    64 :> Say("Verification successful!", "ok", 70) @@
    66 :> Say("Verification failed", "fail", 67) @@
    67 :> Shot("verification_failure.png", "fail", 68, 70) @@
    68 :> ReRaise(70) @@
    70 :> CloseFin(0, 0)

verify_contact == verify_contact_section @@ verify_contact_main

(***************************************************************************)
(* src/verify_filemanager_sort.py                                          *)
(***************************************************************************)
verify_recent_files_sort ==
    5 :> Nav("http://localhost:4173", 10, 46) @@
    10 :> Click("title File Manager", 13, 46) @@
    13 :> Sleep(17) @@
    17 :> WaitFor("button Recent visible", "req", 18, 46) @@
    18 :> WaitFor("button Name visible", "req", 19, 46) @@
    19 :> WaitFor("button Date visible", "req", 24, 46) @@
    24 :> Shot("/home/jules/verification/filemanager_sort_recent.png", "ok", 27, 46) @@
    27 :> Click("button Name", 28, 46) @@
    28 :> Sleep(31) @@
    31 :> WaitFor("text Current Directory: visible", "req", 34, 46) @@
    34 :> Shot("/home/jules/verification/filemanager_sort_name.png", "ok", 44, 46)

\* the main block with the success message printed after the try statement
verify_filemanager_sort_main_after ==
    39 :> Launch(5) @@
    44 :> Say("Verification script completed successfully.", "ok", 48) @@
    46 :> Say("Verification failed", "fail", 44) @@
    48 :> CloseFin(0, 0)

verify_filemanager_sort_main ==
    39 :> Launch(5) @@
    44 :> Say("Verification script completed successfully.", "ok", 48) @@
    46 :> Say("Verification failed", "fail", 48) @@
    48 :> CloseFin(0, 0)

verify_filemanager_sort == verify_recent_files_sort @@ verify_filemanager_sort_main

(***************************************************************************)
(* src/verify_font_size.py                                                 *)
(***************************************************************************)
verify_font_size_open ==
    4 :> Launch(7) @@
    7 :> Nav("http://localhost:3000", 10, 59) @@
    10 :> WaitFor("#settings-btn", "req", 13, 59) @@
    13 :> Do("evaluate remove driver overlay", 20, 59) @@
    20 :> Sleep(23) @@
    23 :> ForceClick("#settings-btn", 26, 59) @@
    26 :> WaitFor("h2 Settings", "req", 29, 59) @@
    29 :> Shot("verification_settings_open.png", "ok", 32, 59) @@
    32 :> ForceClick("button Interface Settings", 35, 59) @@
    35 :> WaitFor("text=Program Font Size", "req", 38, 59) @@
    38 :> Shot("verification_default.png", "ok", 42, 59) @@
    42 :> Do("fill input#program-font-size 150", 45, 59) @@
    45 :> Sleep(48)

verify_font_size_check ==
    48 :> Do("evaluate documentElement.style.fontSize", 49, 59) @@
    49 :> Say("Font size", "info", 50) @@
    50 :> Cmp("font_size == 150%", 51, 53, -1) @@
    51 :> Say("Font size updated correctly in DOM", "ok", 56) @@
    53 :> Say("Font size NOT updated correctly", "fail", 56) @@
    56 :> Shot("verification_enlarged.png", "ok", 62, 59)

verify_font_size_handler ==
    59 :> Say("Error", "fail", 60) @@
    60 :> Shot("error.png", "fail", 62, 62) @@
    62 :> CloseFin(0, 0)

verify_font_size ==
    verify_font_size_open @@ verify_font_size_check @@ verify_font_size_handler

(***************************************************************************)
(* src/verify_fix_v2.py                                                    *)
(***************************************************************************)
verify_fix_v2_load ==
    6 :> Launch(8) @@
    8 :> Nav("http://localhost:4173/", 11, 0) @@
    11 :> Expect("heading Pedro Pathing Visualizer visible", "req", 14, 0) @@
    14 :> Sleep(17)

\* the What's New handling with the expect after Escape outside the try
verify_fix_v2_whats_new_unguarded ==
    17 :> Ask("whats_new.is_visible()", 18, 27, 23) @@
    18 :> Say("Found What's New dialog, closing it...", "info", 19) @@
    19 :> Do("press Escape", 20, 23) @@
    20 :> Expect("whats_new not visible", "opt", 21, 0) @@
    21 :> Say("Closed What's New dialog", "info", 27) @@
    23 :> Say("Error handling dialog", "info", 27)

verify_fix_v2_whats_new ==
    17 :> Ask("whats_new.is_visible()", 18, 27, 23) @@
    18 :> Say("Found What's New dialog, closing it...", "info", 19) @@
    19 :> Do("press Escape", 20, 23) @@
    20 :> Expect("whats_new not visible", "opt", 21, 23) @@
    21 :> Say("Closed What's New dialog", "info", 27) @@
    23 :> Say("Error handling dialog", "info", 27)

verify_fix_v2_settings ==
    27 :> Ask("loading_screen.is_visible()", 28, 32, 0) @@
    28 :> Say("Waiting for loading screen to disappear...", "info", 29) @@
    29 :> Expect("loading_screen not visible", "req", 32, 0) @@
    32 :> Say("Opening Settings...", "info", 33) @@
    33 :> Click("button Settings", 34, 0) @@
    34 :> Expect("dialog Settings visible", "req", 37, 0) @@
    37 :> Say("Expanding Motion Parameters...", "info", 39) @@
    39 :> Click("text Motion Parameters", 45, 0) @@
    45 :> Expect("button pi rad/s visible", "req", 46, 0) @@
    46 :> Expect("button deg/s visible", "req", 48, 0)

\* the unit check without exit(1) after its FAIL message
verify_fix_v2_toggle_noexit ==
    48 :> Say("Verifying Unit Toggle...", "info", 51) @@
    51 :> Read("input_value #angular-velocity", "initial_val", 52, 0) @@
    52 :> Say("Initial Value (Rad Multiplier)", "info", 55) @@
    55 :> Click("button deg/s", 57, 0) @@
    57 :> Read("input_value #angular-velocity", "deg_val", 58, 0) @@
    58 :> Say("Value in Deg/s", "info", 60) @@
    60 :> Test("abs(deg_val - 180.0) > 0.1", 65, 61) @@
    61 :> Say("FAIL: Unit conversion incorrect", "fail", 65) @@
    62 :> ExitP("1")

verify_fix_v2_toggle ==
    48 :> Say("Verifying Unit Toggle...", "info", 51) @@
    51 :> Read("input_value #angular-velocity", "initial_val", 52, 0) @@
    52 :> Say("Initial Value (Rad Multiplier)", "info", 55) @@
    55 :> Click("button deg/s", 57, 0) @@
    57 :> Read("input_value #angular-velocity", "deg_val", 58, 0) @@
    58 :> Say("Value in Deg/s", "info", 60) @@
    60 :> Test("abs(deg_val - 180.0) > 0.1", 65, 61) @@
    61 :> Say("FAIL: Unit conversion incorrect", "fail", 62) @@
    62 :> ExitP("1")

verify_fix_v2_input ==
    65 :> Say("Verifying Max Angular Acceleration Input...", "info", 67) @@
    67 :> Expect("#max-angular-acceleration visible", "req", 70, 0) @@
    70 :> Do("fill #max-angular-acceleration 10", 71, 0) @@
    71 :> Do("press Enter", 74, 0) @@
    74 :> Say("Closing Settings...", "info", 75) @@
    75 :> Click("button Close", 76, 0) @@
    76 :> Expect("dialog Settings not visible", "req", 79, 0) @@
    79 :> Shot("/home/jules/verification/verification_v2.png", "ok", 81, 0) @@
    81 :> Say("PASS: Verified Unit Toggle and New Input", "ok", 83) @@
    83 :> CloseB(0)

verify_fix_v2 ==
    verify_fix_v2_load @@ verify_fix_v2_whats_new @@ verify_fix_v2_settings @@
    verify_fix_v2_toggle @@ verify_fix_v2_input

(***************************************************************************)
(* src/verify_settings.py                                                  *)
(***************************************************************************)
verify_settings_load ==
    5 :> Launch(7) @@
    7 :> Nav("http://localhost:8080", 10, 0) @@
    10 :> WaitFor("text=Pedro Pathing Visualizer", "req", 15, 0)

verify_settings_whats_new ==
    15 :> WaitFor("whats-new dialog", "opt", 16, 28) @@
    16 :> Ask("dialog.is_visible()", 17, 32, 28) @@
    17 :> Say("What's New dialog found. Attempting to close.", "info", 22) @@
    22 :> Do("press Escape", 25, 28) @@
    25 :> WaitFor("whats-new dialog hidden", "opt", 26, 28) @@
    26 :> Say("Dialog closed.", "info", 32) @@
    28 :> Say("Dialog handling note", "info", 32) @@
    32 :> WaitFor("#loading-screen hidden", "opt", 37, 34) @@
    34 :> Say("Loading screen didn't disappear?", "info", 37)

verify_settings_checks ==
    37 :> Say("Clicking Settings button...", "info", 38) @@
    38 :> Click("button[aria-label=Settings]", 41, 0) @@
    41 :> WaitFor("text=Settings", "req", 45, 0) @@
    45 :> Say("Expanding File & Saving section...", "info", 46) @@
    46 :> Click("text=File & Saving", 49, 0) @@
    49 :> WaitFor("text=Autosave Mode", "req", 53, 0) @@
    53 :> Cmp("select#autosave-mode is_visible()", 58, 54, 0) @@
    54 :> Say("Autosave Mode select not visible", "fail", 55) @@
    55 :> ExitP("1") @@
    58 :> Do("select_option time", 61, 0) @@
    61 :> WaitFor("text=Autosave Interval", "req", 65, 0) @@
    65 :> Cmp("select#autosave-interval is_visible()", 70, 66, 0) @@
    66 :> Say("Autosave Interval select not visible", "fail", 67) @@
    67 :> ExitP("1") @@
    70 :> Shot("verification_settings.png", "ok", 71, 0) @@
    71 :> Say("Verification successful, screenshot saved.", "ok", 73) @@
    73 :> CloseB(0)

verify_settings ==
    verify_settings_load @@ verify_settings_whats_new @@ verify_settings_checks

(***************************************************************************)
(* src/verify_frontend.py                                                  *)
(***************************************************************************)
verify_frontend_load ==
    6 :> Launch(10) @@
    10 :> Say("Navigating to http://localhost:8080...", "info", 11) @@
    11 :> Nav("http://localhost:8080", 14, 0) @@
    14 :> Say("Waiting for loading screen to disappear...", "info", 16) @@
    16 :> WaitFor("#loading-screen hidden", "opt", 20, 18) @@
    18 :> Say("Loading screen wait timeout, proceeding...", "info", 20) @@
    20 :> Sleep(27)

verify_frontend_dialog ==
    27 :> Ask("dialog.is_visible()", 28, 56, 43) @@
    28 :> Say("Dialog detected. Attempting to close...", "info", 32) @@
    32 :> Do("press Escape", 33, 43) @@
    33 :> Sleep(35) @@
    35 :> Ask("dialog.is_visible()", 36, 56, 43) @@
    36 :> Say("Dialog still visible after Escape, trying close button...", "info", 40) @@
    40 :> Click("dialog button first", 41, 43) @@
    41 :> Sleep(56) @@
    43 :> Say("Error handling dialog", "info", 56)

\* the PathLineSection check whose handler gives up on the other sections
verify_frontend_path_giveup ==
    56 :> Ask("path_toggle.is_visible()", 58, 64, 79) @@
    58 :> Ask("text Target Position is_visible()", 64, 59, 79) @@
    59 :> Say("Clicking Path 1 toggle", "info", 60) @@
    60 :> Click("button Path 1", 61, 79) @@
    61 :> Sleep(64) @@
    64 :> Ask("target_pos.is_visible()", 65, 76, 79) @@
    65 :> Say("Target Position text is visible.", "info", 66) @@
    66 :> Do("evaluate el.tagName", 67, 79) @@
    67 :> Say("Target Position tag", "info", 69) @@
    69 :> Cmp("tag_name == SPAN", 70, 72, -1) @@
    70 :> Say("SUCCESS: Target Position is a SPAN.", "ok", 74) @@
    72 :> Say("FAILURE: Target Position is not a SPAN", "fail", 74) @@
    74 :> Shot("verification_sidebar.png", "ok", 87, 79) @@
    76 :> Say("Target Position text NOT visible.", "fail", 87) @@
    79 :> Say("Error verifying PathLineSection", "fail", 153)

verify_frontend_path ==
    56 :> Ask("path_toggle.is_visible()", 58, 64, 79) @@
    58 :> Ask("text Target Position is_visible()", 64, 59, 79) @@
    59 :> Say("Clicking Path 1 toggle", "info", 60) @@
    60 :> Click("button Path 1", 61, 79) @@
    61 :> Sleep(64) @@
    64 :> Ask("target_pos.is_visible()", 65, 76, 79) @@
    65 :> Say("Target Position text is visible.", "info", 66) @@
    66 :> Do("evaluate el.tagName", 67, 79) @@
    67 :> Say("Target Position tag", "info", 69) @@
    69 :> Cmp("tag_name == SPAN", 70, 72, -1) @@
    70 :> Say("SUCCESS: Target Position is a SPAN.", "ok", 74) @@
    72 :> Say("FAILURE: Target Position is not a SPAN", "fail", 74) @@
    74 :> Shot("verification_sidebar.png", "ok", 87, 79) @@
    76 :> Say("Target Position text NOT visible.", "fail", 87) @@
    79 :> Say("Error verifying PathLineSection", "fail", 87)

verify_frontend_wait ==
    87 :> Do("scroll_into_view_if_needed Add Wait After", 88, 117) @@
    88 :> Click("button[title=Add Wait After] first", 89, 117) @@
    89 :> Say("Clicked Add Wait After", "info", 90) @@
    90 :> Sleep(94) @@
    94 :> Ask("duration_label.is_visible()", 95, 114, 117) @@
    95 :> Say("Duration (ms) label visible", "info", 99) @@
    99 :> Do("get_attribute for", 100, 117) @@
    100 :> Say("Label for attribute", "info", 103) @@
    103 :> Cmp("for_attr", 105, 110, -1) @@
    105 :> Cmp("input for_attr is_visible()", 106, 108, 117) @@
    106 :> Say("SUCCESS: Found input with id", "ok", 112) @@
    108 :> Say("FAILURE: Input not found/visible", "fail", 112) @@
    110 :> Say("FAILURE: Label has no 'for' attribute", "fail", 112) @@
    112 :> Shot("verification_wait.png", "ok", 123, 117) @@
    114 :> Say("Duration (ms) label NOT visible", "fail", 123) @@
    117 :> Say("Error verifying WaitSection", "fail", 123)

verify_frontend_rotate ==
    123 :> Do("scroll_into_view_if_needed Add Rotate After", 124, 151) @@
    124 :> Click("button[title=Add Rotate After] first", 125, 151) @@
    125 :> Say("Clicked Add Rotate After", "info", 126) @@
    126 :> Sleep(130) @@
    130 :> Ask("heading_label.is_visible()", 131, 153, 151) @@
    131 :> Say("Heading (deg) label visible", "info", 132) @@
    132 :> Do("get_attribute for", 133, 151) @@
    133 :> Say("Label for attribute", "info", 135) @@
    135 :> Cmp("for_attr", 137, 147, -1) @@
    137 :> Cmp("input for_attr is_visible()", 138, 140, 151) @@
    138 :> Say("SUCCESS: Found input with id", "ok", 149) @@
    140 :> Say("FAILURE: Input not found/visible", "fail", 149) @@
    147 :> Say("FAILURE: Label has no 'for' attribute", "fail", 149) @@
    149 :> Shot("verification_rotate.png", "ok", 153, 151) @@
    151 :> Say("Error verifying RotateSection", "fail", 153) @@
    153 :> CloseB(0)

verify_frontend ==
    verify_frontend_load @@ verify_frontend_dialog @@ verify_frontend_path @@
    verify_frontend_wait @@ verify_frontend_rotate

(***************************************************************************)
(* src/verification/verify_focus.py                                        *)
(***************************************************************************)
verify_focus_load ==
    5 :> Launch(7) @@
    7 :> Nav("http://localhost:5173", 10, 0) @@
    10 :> Sleep(13) @@
    13 :> Do("press Escape", 14, 0) @@
    14 :> Sleep(15) @@
    15 :> Do("press Escape", 16, 0) @@
    16 :> Sleep(22)

verify_focus_add_path ==
    22 :> Ask("add_path.count() > 0", 24, 37, 0) @@
    24 :> Click("label Add new path segment", 37, 27) @@
    27 :> ForceClick("label Add new path segment", 37, 0)

verify_focus_points ==
    37 :> Ask("show_cp_btns.count() > 0", 40, 46, 0) @@
    40 :> Do("get_attribute title", 41, 0) @@
    41 :> Ask("Show in title", 42, 46, -1) @@
    42 :> Click("button[title*=control points] first", 46, 0) @@
    46 :> Count("label Add Control Point", 1, 48, 59, 0) @@
    48 :> Click("label Add Control Point", 49, 0) @@
    49 :> Sleep(50) @@
    50 :> Click("label Add Control Point", 51, 0) @@
    51 :> Sleep(59)

\* "if move_up_btns.count() >= 1": one button would be enough to go on
verify_focus_shot_one ==
    59 :> Count("label Move control point up", 1, 61, 69, 0) @@
    61 :> Do("focus Move control point up nth(1)", 64, 0) @@
    64 :> Sleep(67) @@
    67 :> Shot("verification/focus_visible.png", "ok", 72, 0) @@
    69 :> Say("Could not find enough control points buttons", "fail", 70) @@
    70 :> Shot("verification/debug.png", "fail", 72, 0) @@
    72 :> CloseB(0)

verify_focus_shot ==
    59 :> Count("label Move control point up", 2, 61, 69, 0) @@
    61 :> Do("focus Move control point up nth(1)", 64, 0) @@
    64 :> Sleep(67) @@
    67 :> Shot("verification/focus_visible.png", "ok", 72, 0) @@
    69 :> Say("Could not find enough control points buttons", "fail", 70) @@
    70 :> Shot("verification/debug.png", "fail", 72, 0) @@
    72 :> CloseB(0)

verify_focus ==
    verify_focus_load @@ verify_focus_add_path @@ verify_focus_points @@
    verify_focus_shot

(***************************************************************************)
(* src/verification/verify_script_v2.py                                    *)
(***************************************************************************)
verify_script_v2_goto ==
    6 :> Launch(11) @@
    11 :> Nav("http://localhost:5173", 17, 13) @@
    13 :> Say("Failed to load page", "fail", 14) @@
    14 :> Ret @@
    17 :> Sleep(22)

verify_script_v2_dialog ==
    22 :> Ask("close_btn.is_visible()", 23, 26, 29) @@
    23 :> Click("button[aria-label=Close] first", 24, 29) @@
    24 :> Say("Closed 'What's New' dialog.", "info", 31) @@
    26 :> Do("press Escape", 27, 29) @@
    27 :> Say("Pressed Escape to close dialog.", "info", 31) @@
    29 :> Say("Error closing dialog", "info", 31) @@
    31 :> Sleep(36)

verify_script_v2_steps ==
    36 :> Ask("add_rotate_btn.is_visible()", 37, 40, 42) @@
    37 :> Click("button Add Rotate", 38, 42) @@
    38 :> Say("Clicked 'Add Rotate' button.", "info", 44) @@
    40 :> Say("'Add Rotate' button not visible.", "fail", 44) @@
    42 :> Say("Error adding rotate", "fail", 44) @@
    44 :> Sleep(49) @@
    49 :> Ask("button View path statistics is_visible()", 52, 52, 58) @@
    52 :> Ask("stats_btn.is_visible()", 53, 56, 58) @@
    53 :> Click("stats_btn", 54, 58) @@
    54 :> Say("Clicked 'Stats' button.", "info", 60) @@
    56 :> Say("Stats button not found.", "fail", 60) @@
    58 :> Say("Error opening stats", "fail", 60) @@
    60 :> Sleep(63) @@
    63 :> Shot("verification/path_stats_dialog.png", "ok", 64, 0) @@
    64 :> Say("Screenshot saved to verification/path_stats_dialog.png", "ok", 66) @@
    66 :> CloseB(0)

verify_script_v2 ==
    verify_script_v2_goto @@ verify_script_v2_dialog @@ verify_script_v2_steps

(***************************************************************************)
(* src/verification/verify_timeline.py                                     *)
(***************************************************************************)
verify_timeline ==
    5 :> Launch(8) @@
    8 :> Nav("http://localhost:5173", 9, 0) @@
    9 :> WaitFor("text=Paths", "req", 10, 0) @@
    10 :> WaitFor("#loading-screen hidden", "req", 12, 0) @@
    12 :> Do("press Escape", 15, 15) @@
    15 :> Sleep(18) @@
    18 :> Click("button Add Path first", 21, 0) @@
    21 :> Click("button Add wait command", 24, 0) @@
    24 :> Click("button Add rotate command", 35, 0) @@
    35 :> Ask("markers_btn.count() > 0", 36, 41, 0) @@
    36 :> Click("button[title*=event markers] first", 37, 0) @@
    37 :> Sleep(39) @@
    39 :> Click("button Add Marker first", 43, 0) @@
    41 :> Say("Could not find Event Markers button", "fail", 43) @@
    43 :> Sleep(45) @@
    45 :> Shot("verification/timeline_full.png", "ok", 48, 0) @@
    48 :> Ask("controls.count() > 0", 49, 51, 0) @@
    49 :> Shot("verification/timeline_controls.png", "ok", 51, 0) @@
    51 :> Say("Screenshots taken", "ok", 52) @@
    52 :> CloseB(0)

(***************************************************************************)
(* src/verification/verify_aria.py                                         *)
(***************************************************************************)
verify_aria_goto ==
    7 :> Launch(12) @@
    12 :> Nav("http://localhost:4173", 13, 15) @@
    13 :> WaitFor("load_state networkidle", "req", 19, 15) @@
    15 :> Say("Failed to load page", "fail", 16) @@
    16 :> CloseB(17) @@
    17 :> Ret

verify_aria_navbar ==
    19 :> Say("Page loaded.", "info", 22) @@
    22 :> Say("Checking Navbar ARIA labels...", "info", 25) @@
    25 :> Expect("label Open File Manager visible", "req", 26, 0) @@
    26 :> Say("File Manager button has correct label", "ok", 29) @@
    29 :> Expect("label Toggle Grid visible", "req", 30, 0) @@
    30 :> Say("Grid toggle has correct label", "ok", 32) @@
    32 :> Expect("label Toggle Ruler visible", "req", 33, 0) @@
    33 :> Say("Ruler toggle has correct label", "ok", 36)

verify_aria_file_manager ==
    36 :> Say("Opening File Manager...", "info", 37) @@
    37 :> Click("label Open File Manager", 42, 0) @@
    42 :> Expect("button[title=Close] visible", "req", 44, 0) @@
    44 :> Say("Checking File Manager ARIA labels...", "info", 50) @@
    50 :> Expect("button Name visible", "req", 51, 0) @@
    51 :> Expect("button Recent visible", "req", 54, 0) @@
    54 :> Do("get_attribute aria-pressed button Name", 55, 0) @@
    55 :> Say("Name sort aria-pressed", "info", 58) @@
    58 :> Click("button Recent", 59, 0) @@
    59 :> Do("get_attribute aria-pressed button Recent", 60, 0) @@
    60 :> Say("Recent sort aria-pressed after click", "info", 63) @@
    63 :> Shot("verification/aria_verification.png", "ok", 64, 0) @@
    64 :> Say("Screenshot taken at verification/aria_verification.png", "ok", 66) @@
    66 :> CloseB(0)

verify_aria == verify_aria_goto @@ verify_aria_navbar @@ verify_aria_file_manager

(***************************************************************************)
(* src/verification/verify_feature.py                                      *)
(***************************************************************************)
verify_feature_load ==
    4 :> Launch(7) @@
    7 :> Setup("set_viewport_size 1280x720", 9) @@
    9 :> Say("Navigating...", "info", 10) @@
    10 :> Nav("http://localhost:4173/", 13, 0) @@
    13 :> WaitFor("load_state networkidle", "req", 18, 0)

verify_feature_onboarding ==
    18 :> Ask("is_visible text=What's New", 19, 25, 22) @@
    19 :> Say("Closing What's New...", "info", 20) @@
    20 :> Click("button[aria-label=Close]", 25, 22) @@
    22 :> Say("Note", "info", 25) @@
    25 :> Ask("is_visible text=Skip", 26, 31, 29) @@
    26 :> Say("Skipping tutorial...", "info", 27) @@
    27 :> Click("text=Skip", 31, 29) @@
    29 :> Say("Note", "info", 31)

verify_feature_export ==
    31 :> Say("Opening Export menu...", "info", 33) @@
    33 :> Click("text=Export", 35, 0) @@
    35 :> Say("Clicking Strategy Sheet...", "info", 36) @@
    36 :> Click("text=Strategy Sheet", 38, 0) @@
    38 :> Say("Waiting for dialog...", "info", 40) @@
    40 :> WaitFor("text=Strategy Sheet Preview", "req", 43, 0) @@
    43 :> Sleep(45) @@
    45 :> Say("Taking screenshot...", "info", 46) @@
    46 :> Shot("verification/strategy_sheet.png", "ok", 48, 0) @@
    48 :> CloseB(0)

verify_feature ==
    verify_feature_load @@ verify_feature_onboarding @@ verify_feature_export

(***************************************************************************)
(* src/verification/verify_setup.py                                        *)
(***************************************************************************)
verify_setup_load ==
    5 :> Launch(6) @@
    6 :> Setup("new_context", 9) @@
    9 :> Setup("add_init_script window.electronAPI", 24) @@
    24 :> Nav("http://localhost:4173", 29, 0)

\* the handler of the dialog wait without browser.close() and return
verify_setup_wait_fallthrough ==
    29 :> WaitFor("text=Select Your AutoPaths Directory", "req", 30, 32) @@
    30 :> Say("Setup dialog found!", "ok", 38) @@
    32 :> Say("Setup dialog NOT found!", "fail", 33) @@
    33 :> Shot("/home/jules/verification/verification_failure.png", "fail", 38, 0) @@
    34 :> CloseB(35) @@
    35 :> Ret @@
    38 :> Shot("/home/jules/verification/verification.png", "ok", 40, 0) @@
    40 :> CloseB(0)

\* the handler of the dialog wait closing the browser before the screenshot
verify_setup_wait_close_first ==
    29 :> WaitFor("text=Select Your AutoPaths Directory", "req", 30, 32) @@
    30 :> Say("Setup dialog found!", "ok", 38) @@
    32 :> Say("Setup dialog NOT found!", "fail", 34) @@
    34 :> CloseB(33) @@
    33 :> Shot("/home/jules/verification/verification_failure.png", "fail", 35, 0) @@
    35 :> Ret @@
    38 :> Shot("/home/jules/verification/verification.png", "ok", 40, 0) @@
    40 :> CloseB(0)

verify_setup_wait ==
    29 :> WaitFor("text=Select Your AutoPaths Directory", "req", 30, 32) @@
    30 :> Say("Setup dialog found!", "ok", 38) @@
    32 :> Say("Setup dialog NOT found!", "fail", 33) @@
    33 :> Shot("/home/jules/verification/verification_failure.png", "fail", 34, 0) @@
    34 :> CloseB(35) @@
    35 :> Ret @@
    38 :> Shot("/home/jules/verification/verification.png", "ok", 40, 0) @@
    40 :> CloseB(0)

verify_setup == verify_setup_load @@ verify_setup_wait

(***************************************************************************)
(* src/verification/verify_command_palette.py                              *)
(***************************************************************************)
verify_command_palette_fn ==
    6 :> Nav("http://localhost:4173", 11, 51) @@
    11 :> Sleep(15) @@
    15 :> Do("press Control+p", 19, 51) @@
    19 :> WaitFor("input[placeholder=Type a command or search...]", "req", 22, 51) @@
    22 :> Do("fill input Zoom", 26, 51) @@
    26 :> Expect("text Zoom to Fit visible", "req", 29, 51) @@
    29 :> Shot("verification/command_palette_zoom.png", "ok", 32, 51) @@
    32 :> Do("fill input empty", 33, 51) @@
    33 :> Do("fill input Ghost", 36, 51) @@
    36 :> Expect("text Toggle Ghost Paths visible", "req", 39, 51) @@
    39 :> Shot("verification/command_palette_ghost.png", "ok", 49, 51)

verify_command_palette_main ==
    43 :> Launch(46) @@
    46 :> Setup("set_viewport_size 1280x720", 6) @@
    49 :> Say("Verification successful!", "ok", 54) @@
    51 :> Say("Verification failed", "fail", 52) @@
    52 :> Shot("verification/failure.png", "fail", 54, 54) @@
    54 :> CloseFin(0, 0)

verify_command_palette == verify_command_palette_fn @@ verify_command_palette_main

(***************************************************************************)
(* src/verification/verify_whats_new.py                                    *)
(***************************************************************************)
\* the loading-screen wait repeated until it succeeds
verify_whats_new_load_retry ==
    6 :> Nav("http://localhost:5173", 10, 65) @@
    10 :> WaitFor("#loading-screen detached", "opt", 14, 10) @@
    14 :> Sleep(17)

verify_whats_new_load ==
    6 :> Nav("http://localhost:5173", 10, 65) @@
    10 :> WaitFor("#loading-screen detached", "opt", 14, 14) @@
    14 :> Sleep(17)

test_whats_new_dialog ==
    17 :> Do("press Shift+N", 21, 65) @@
    21 :> Expect("dialog What's New visible", "req", 24, 65) @@
    24 :> Shot("verification/whats_new_grid.png", "ok", 28, 65) @@
    28 :> Do("fill Search... version", 31, 65) @@
    31 :> Sleep(32) @@
    32 :> Shot("verification/whats_new_search.png", "ok", 35, 65) @@
    35 :> Do("fill Search... empty", 38, 65) @@
    38 :> Click("button Release Notes", 41, 65) @@
    41 :> Sleep(42) @@
    42 :> Shot("verification/whats_new_release_list.png", "ok", 45, 65) @@
    45 :> Click("button Version 2.0.0 Highlights", 48, 65) @@
    48 :> Sleep(51) @@
    51 :> Expect("heading Version 2.0.0 Highlights visible", "req", 54, 65) @@
    54 :> Expect("text What's New in 2.0.0 visible", "req", 56, 65) @@
    56 :> Shot("verification/whats_new_content.png", "ok", 65, 65)

verify_whats_new_main ==
    60 :> Launch(6) @@
    65 :> CloseFin(0, 0)

verify_whats_new ==
    verify_whats_new_load @@ test_whats_new_dialog @@ verify_whats_new_main

(***************************************************************************)
(* src/verification/capture_screenshot.py                                  *)
(***************************************************************************)
\* the script without its trailing browser.close()
capture_screenshot_noclose ==
    7 :> Launch(12) @@
    12 :> Nav("file://verification/page_content.html", 16, 0) @@
    16 :> Shot("verification/simulation_page_preview.png", "ok", 17, 0) @@
    17 :> Say("Screenshot saved to verification/simulation_page_preview.png", "ok", 0)

capture_screenshot ==
    7 :> Launch(12) @@
    12 :> Nav("file://verification/page_content.html", 16, 0) @@
    16 :> Shot("verification/simulation_page_preview.png", "ok", 17, 0) @@
    17 :> Say("Screenshot saved to verification/simulation_page_preview.png", "ok", 19) @@
    19 :> CloseB(0)

(***************************************************************************)
(* src/verification/verify_rotate.py                                       *)
(***************************************************************************)
verify_rotate_start ==
    6 :> Launch(7) @@
    7 :> Setup("new_context", 11) @@
    11 :> Nav("http://localhost:5173", 14, 66) @@
    14 :> WaitFor("text=Path 1", "req", 17, 66) @@
    17 :> Do("mouse.click 10 10", 18, 66) @@
    18 :> Do("press Escape", 19, 66) @@
    19 :> Sleep(22) @@
    22 :> Do("evaluate remove role=dialog", 23, 66) @@
    23 :> Sleep(27) @@
    27 :> Click("text=Add Rotate >> nth=0", 30, 66) @@
    30 :> Shot("verification/1_add_rotate_at_start.png", "ok", 33, 66)

\* the second part with a failure of its screenshot ignored
verify_rotate_after_path_swallow ==
    33 :> Nav("reload", 34, 66) @@
    34 :> WaitFor("text=Path 1 visible", "req", 35, 66) @@
    35 :> Do("press Escape", 36, 66) @@
    36 :> Do("evaluate remove role=dialog", 37, 66) @@
    37 :> Sleep(42) @@
    42 :> Ask("path_rotate_btn.is_visible()", 43, 45, 66) @@
    43 :> Click("button[title=Add Rotate After] first", 47, 66) @@
    45 :> Say("Could not find Add Rotate After button for Path", "fail", 47) @@
    47 :> Shot("verification/2_add_rotate_after_path.png", "ok", 52, 52)

verify_rotate_after_path ==
    33 :> Nav("reload", 34, 66) @@
    34 :> WaitFor("text=Path 1 visible", "req", 35, 66) @@
    35 :> Do("press Escape", 36, 66) @@
    36 :> Do("evaluate remove role=dialog", 37, 66) @@
    37 :> Sleep(42) @@
    42 :> Ask("path_rotate_btn.is_visible()", 43, 45, 66) @@
    43 :> Click("button[title=Add Rotate After] first", 47, 66) @@
    45 :> Say("Could not find Add Rotate After button for Path", "fail", 47) @@
    47 :> Shot("verification/2_add_rotate_after_path.png", "ok", 52, 66)

verify_rotate_after_wait ==
    52 :> Click("text=Add Wait last", 56, 66) @@
    56 :> Ask("wait_rotate_btn.is_visible()", 57, 59, 66) @@
    57 :> Click("button[title=Add Rotate After] last", 61, 66) @@
    59 :> Say("Could not find Add Rotate After button for Wait", "fail", 61) @@
    61 :> Shot("verification/3_add_rotate_after_wait.png", "ok", 63, 66) @@
    63 :> Say("Verification script completed.", "ok", 69)

verify_rotate_handler ==
    66 :> Say("Error", "fail", 67) @@
    67 :> Shot("verification/error.png", "fail", 69, 69) @@
    69 :> CloseFin(0, 0)

verify_rotate ==
    verify_rotate_start @@ verify_rotate_after_path @@ verify_rotate_after_wait @@
    verify_rotate_handler

(***************************************************************************)
(* src/verification/verify_timeline_hover.py                               *)
(***************************************************************************)
verify_timeline_hover_goto ==
    4 :> Launch(8) @@
    8 :> Nav("http://localhost:4173", 13, 10) @@
    10 :> Say("Could not connect to localhost:4173.", "fail", 11) @@
    11 :> Ret @@
    13 :> WaitFor("load_state networkidle", "req", 17, 0) @@
    17 :> Ask("dialog.count() > 0 and dialog.first.is_visible()", 18, 22, 0) @@
    18 :> Do("press Escape", 19, 0) @@
    19 :> Sleep(22)

verify_timeline_hover_add_path ==
    22 :> Ask("add_path_btn.is_visible()", 24, 31, 0) @@
    24 :> Click("button Add Path", 27, 26) @@
    26 :> ForceClick("button Add Path", 27, 0) @@
    27 :> Sleep(31)

verify_timeline_hover_markers ==
    31 :> Ask("markers.count() > 0", 35, 67, 0) @@
    35 :> Do("evaluate marker opacity", 36, 0) @@
    36 :> Say("Marker opacity", "info", 37) @@
    37 :> Cmp("marker_opacity == 1", 44, 38, -1) @@
    38 :> Say("Error: Marker should be visible", "fail", 44) @@
    44 :> Do("evaluate tooltip opacity", 45, 0) @@
    45 :> Say("Initial tooltip opacity", "info", 47) @@
    47 :> Cmp("tooltip_opacity == 0", 50, 48, -1) @@
    48 :> Say("Error: Tooltip should be hidden initially", "fail", 53) @@
    50 :> Say("Verified: Tooltip is hidden initially", "ok", 53) @@
    53 :> Do("hover first_marker force", 54, 0) @@
    54 :> Sleep(56) @@
    56 :> Do("evaluate tooltip opacity", 57, 0) @@
    57 :> Say("Hover tooltip opacity", "info", 59) @@
    59 :> Cmp("tooltip_opacity_hover == 1", 60, 62, -1) @@
    60 :> Say("Verified: Tooltip is visible on hover", "ok", 64) @@
    62 :> Say("Error: Tooltip should be visible on hover", "fail", 64) @@
    64 :> Shot("verification/verification.png", "ok", 69, 0) @@
    67 :> Say("No markers found", "fail", 69) @@
    69 :> CloseB(0)

verify_timeline_hover ==
    verify_timeline_hover_goto @@ verify_timeline_hover_add_path @@
    verify_timeline_hover_markers

(***************************************************************************)
(* The scripts and their entry lines (the first statement executed when    *)
(* the file is run as a program).                                          *)
(***************************************************************************)
ScriptNames ==
    {"verify_history", "verify_contact", "verify_filemanager_sort",
     "verify_font_size", "verify_fix_v2", "verify_settings", "verify_frontend",
     "verify_focus", "verify_script_v2", "verify_timeline", "verify_aria",
     "verify_feature", "verify_setup", "verify_command_palette",
     "verify_whats_new", "capture_screenshot", "verify_rotate",
     "verify_timeline_hover"}

Scripts(s) ==
    CASE s = "verify_history" -> verify_history
      [] s = "verify_contact" -> verify_contact
      [] s = "verify_filemanager_sort" -> verify_filemanager_sort
      [] s = "verify_font_size" -> verify_font_size
      [] s = "verify_fix_v2" -> verify_fix_v2
      [] s = "verify_settings" -> verify_settings
      [] s = "verify_frontend" -> verify_frontend
      [] s = "verify_focus" -> verify_focus
      [] s = "verify_script_v2" -> verify_script_v2
      [] s = "verify_timeline" -> verify_timeline
      [] s = "verify_aria" -> verify_aria
      [] s = "verify_feature" -> verify_feature
      [] s = "verify_setup" -> verify_setup
      [] s = "verify_command_palette" -> verify_command_palette
      [] s = "verify_whats_new" -> verify_whats_new
      [] s = "capture_screenshot" -> capture_screenshot
      [] s = "verify_rotate" -> verify_rotate
      [] s = "verify_timeline_hover" -> verify_timeline_hover

Entry(s) ==
    CASE s = "verify_history" -> 6
      [] s = "verify_contact" -> 58
      [] s = "verify_filemanager_sort" -> 39
      [] s = "verify_font_size" -> 4
      [] s = "verify_fix_v2" -> 6
      [] s = "verify_settings" -> 5
      [] s = "verify_frontend" -> 6
      [] s = "verify_focus" -> 5
      [] s = "verify_script_v2" -> 6
      [] s = "verify_timeline" -> 5
      [] s = "verify_aria" -> 7
      [] s = "verify_feature" -> 4
      [] s = "verify_setup" -> 5
      [] s = "verify_command_palette" -> 43
      [] s = "verify_whats_new" -> 60
      [] s = "capture_screenshot" -> 7
      [] s = "verify_rotate" -> 6
      [] s = "verify_timeline_hover" -> 4

\* the add_init_script statements that seed localStorage or mock globals
SeedScripts ==
    {"add_init_script pedro-settings", "add_init_script window.electronAPI"}

Code == Scripts(script)
Cur == Code[pc]

(***************************************************************************)
(* Interpreter: Python's statement sequencing, try / except / finally,     *)
(* return, exit() and the exit status of the process.                      *)
(***************************************************************************)
Running == phase = "running"
Ended == phase \in {"done", "raised", "exited"}

\* the record of one executed statement: r its result, x whether it raised
Ev(s, r, x) == [ln |-> pc, k |-> s.k, a |-> s.a, role |-> s.role,
                force |-> s.force, r |-> r, x |-> x, st |-> storage]

\* control continues at line t; t = 0 leaves the script normally (status 0)
Continue(t) ==
    /\ pc' = t
    /\ phase' = IF t = 0 THEN "done" ELSE "running"
    /\ code' = IF t = 0 THEN 0 ELSE code
    /\ exc' = FALSE

\* an exception raised at step s: enter its handler, or its finally block with
\* the exception pending, or leave the script with a traceback (status 1)
Throw(s) ==
    /\ pc' = s.err
    /\ phase' = IF s.err = 0 THEN "raised" ELSE "running"
    /\ code' = IF s.err = 0 THEN 1 ELSE code
    /\ exc' = IF s.err = 0 THEN FALSE ELSE Code[s.err].fin

CanStep(kind) ==
    /\ Running
    /\ Len(log) < MaxLog
    /\ Cur.k = kind

\* the same script is being run again, against a target that gives the same
\* responses as in the run before
Replaying == prev.phase # "idle"

\* what the page may answer to the statement at pc: anything in a first run;
\* in a run that repeats one, the answer of the run before when the same
\* statement is issued at the same point with the page's storage in the same
\* condition
Answer(r, x) ==
    LET n == Len(log) + 1
    IN  (/\ Replaying
         /\ n <= Len(prev.log)
         /\ prev.log[n].ln = pc
         /\ prev.log[n].st = storage)
            => (prev.log[n].r = r /\ prev.log[n].x = x)

(***************************************************************************)
(* The application's file manager (the application is not among the        *)
(* scripts; its sort buttons are modelled from the specification): one     *)
(* sort mode at a time, the button of the current mode has                 *)
(* aria-pressed="true", the others "false".                                *)
(***************************************************************************)
\* the sort mode of a freshly loaded page, with Recent pressed instead
DefaultSort_recent == "recent"

\* the sort mode of a freshly loaded page
DefaultSort == "name"

\* the sort mode after a click on the element a
Sorted(a) ==
    CASE a = "button Recent" -> "recent"
      [] a = "button Name" -> "name"
      [] a = "button Date" -> "date"
      [] OTHER -> sort

\* the aria-pressed attribute of the sort button of mode m
AriaPressed(m) == IF sort = m THEN "true" ELSE "false"

\* what a call that returns yields: the attribute for get_attribute on a sort
\* button, "ok" for the calls whose value the model does not follow
Value(s) ==
    CASE s.a = "get_attribute aria-pressed button Recent" -> AriaPressed("recent")
      [] s.a = "get_attribute aria-pressed button Name" -> AriaPressed("name")
      [] OTHER -> "ok"

\* the strings the value of the angular-velocity input is drawn from: the
\* value of a number input is a number or empty
InputValues == {"180", "180.1", "179.8", "1", ""}

\* float(s) returns
Parses(s) == s # ""

\* float(s), in tenths
ParseFloat(s) ==
    CASE s = "180" -> 1800
      [] s = "180.1" -> 1801
      [] s = "179.8" -> 1798
      [] s = "1" -> 10

\* abs()
Abs(n) == IF n < 0 THEN 0 - n ELSE n

\* a navigation or an interaction lets the application write its storage
Used(kind) == IF kind \in {"goto", "act", "click"} THEN "used" ELSE storage

\* a call on the page that either returns or raises with one of the reasons
Call(kind, reasons) ==
    /\ CanStep(kind)
    /\ \/ /\ Answer(Value(Cur), FALSE)
          /\ log' = Append(log, Ev(Cur, Value(Cur), FALSE))
          /\ storage' = Used(kind)
          /\ sort' = IF kind = "goto" THEN DefaultSort ELSE sort
          /\ Continue(Cur.nx)
       \/ \E r \in reasons :
          /\ Answer(r, TRUE)
          /\ log' = Append(log, Ev(Cur, r, TRUE))
          /\ UNCHANGED <<storage, sort>>
          /\ Throw(Cur)
    /\ UNCHANGED <<script, open, runs, deg_val, prev>>

\* a statement that cannot raise
Plain(kind) ==
    /\ CanStep(kind)
    /\ log' = Append(log, Ev(Cur, "ok", FALSE))
    /\ Continue(Cur.nx)
    /\ UNCHANGED <<script, open, runs, storage, sort, deg_val, prev>>

\* a condition: true, false, or (when it reads the page) the read raises
Branch(kind, yes, no) ==
    /\ CanStep(kind)
    /\ \/ /\ Answer(yes, FALSE)
          /\ log' = Append(log, Ev(Cur, yes, FALSE))
          /\ Continue(Cur.nx)
       \/ /\ Answer(no, FALSE)
          /\ log' = Append(log, Ev(Cur, no, FALSE))
          /\ Continue(Cur.alt)
       \/ /\ Cur.err >= 0
          /\ Answer("error", TRUE)
          /\ log' = Append(log, Ev(Cur, "error", TRUE))
          /\ Throw(Cur)
    /\ UNCHANGED <<script, open, runs, storage, sort, deg_val, prev>>

\* python <script>.py: a new process, a new interpreter, an empty record
Begin(s) ==
    /\ script' = s
    /\ pc' = Entry(s)
    /\ phase' = "running"
    /\ exc' = FALSE
    /\ code' = 0
    /\ log' = <<>>
    /\ runs' = runs + 1
    /\ deg_val' = 0
    /\ UNCHANGED <<open, storage, sort>>

\* one script is run
Start(s) ==
    /\ phase = "idle"
    /\ Begin(s)
    /\ UNCHANGED prev

\* another script is run after the previous one has ended
StartNext(s) ==
    /\ Ended
    /\ runs < MaxRuns
    /\ Begin(s)
    /\ UNCHANGED prev

\* the script that has ended is run once more
Rerun ==
    /\ Ended
    /\ ~Replaying
    /\ Begin(script)
    /\ prev' = [log |-> log, phase |-> phase, code |-> code]

\* chromium.launch() with a profile that outlives the browser
DoLaunch_persistent ==
    /\ CanStep("launch")
    /\ log' = Append(log, Ev(Cur, "ok", FALSE))
    /\ open' = open + 1
    /\ Continue(Cur.nx)
    /\ UNCHANGED <<script, runs, storage, sort, deg_val, prev>>

\* chromium.launch(): a new browser process with a new, empty profile
DoLaunch ==
    /\ CanStep("launch")
    /\ log' = Append(log, Ev(Cur, "ok", FALSE))
    /\ open' = open + 1
    /\ storage' = "fresh"
    /\ sort' = "none"
    /\ Continue(Cur.nx)
    /\ UNCHANGED <<script, runs, deg_val, prev>>

\* new_context: an isolated, empty context; add_init_script: the seed is
\* written before the page's own scripts run; set_viewport_size: no storage
DoSetup ==
    /\ CanStep("setup")
    /\ log' = Append(log, Ev(Cur, "ok", FALSE))
    /\ storage' = CASE Cur.a = "new_context" -> "fresh"
                     [] Cur.a \in SeedScripts -> "seeded"
                     [] OTHER -> storage
    /\ Continue(Cur.nx)
    /\ UNCHANGED <<script, open, runs, sort, deg_val, prev>>
DoNav == Call("goto", {"timeout"})
DoWait == Call("wait", {"timeout"})
DoSleep == Plain("sleep")
DoAct == Call("act", {"error"})
DoExpect == Call("expect", {"mismatch"})
DoShot == Call("shot", {"error"})
DoSay == Plain("say")
DoAsk == Branch("ask", "yes", "no")
DoCmp == Branch("cmp", "match", "mismatch")

\* float(locator.input_value()): input_value may time out; float raises
\* ValueError on a string that is not a number
DoRead ==
    /\ CanStep("read")
    /\ \/ \E s \in InputValues :
          /\ Answer(s, ~Parses(s))
          /\ log' = Append(log, Ev(Cur, s, ~Parses(s)))
          /\ IF Parses(s)
                THEN /\ deg_val' = IF Cur.role = "deg_val"
                                     THEN ParseFloat(s) ELSE deg_val
                     /\ Continue(Cur.nx)
                ELSE /\ deg_val' = deg_val
                     /\ Throw(Cur)
       \/ /\ Answer("timeout", TRUE)
          /\ log' = Append(log, Ev(Cur, "timeout", TRUE))
          /\ deg_val' = deg_val
          /\ Throw(Cur)
    /\ UNCHANGED <<script, open, runs, storage, sort, prev>>

\* locator.count(): the number of elements that match at the moment of the
\* call, as the page reports it
CountValues == {"0", "1", "2", "3"}

\* the integer a reported count stands for
Number(s) ==
    CASE s = "0" -> 0
      [] s = "1" -> 1
      [] s = "2" -> 2
      [] s = "3" -> 3

\* if locator.count() >= min; count() raises when the page is gone
DoCount ==
    /\ CanStep("count")
    /\ \/ \E c \in CountValues :
          /\ Answer(c, FALSE)
          /\ log' = Append(log, Ev(Cur, c, FALSE))
          /\ Continue(IF Number(c) >= Cur.min THEN Cur.nx ELSE Cur.alt)
       \/ /\ Answer("error", TRUE)
          /\ log' = Append(log, Ev(Cur, "error", TRUE))
          /\ Throw(Cur)
    /\ UNCHANGED <<script, open, runs, storage, sort, deg_val, prev>>

\* if abs(deg_val - 180.0) > 0.1
DoTest ==
    /\ CanStep("test")
    /\ IF Abs(deg_val - 1800) > 1
         THEN /\ log' = Append(log, Ev(Cur, "mismatch", FALSE))
              /\ Continue(Cur.alt)
         ELSE /\ log' = Append(log, Ev(Cur, "match", FALSE))
              /\ Continue(Cur.nx)
    /\ UNCHANGED <<script, open, runs, storage, sort, deg_val, prev>>

\* a click fails because the target is covered by another element or because
\* it never becomes actionable; force=True skips the first check
DoClick ==
    /\ CanStep("click")
    /\ \/ /\ Answer("ok", FALSE)
          /\ log' = Append(log, Ev(Cur, "ok", FALSE))
          /\ storage' = Used("click")
          /\ sort' = Sorted(Cur.a)
          /\ Continue(Cur.nx)
       \/ \E r \in (IF Cur.force THEN {"timeout"} ELSE {"obscured", "timeout"}) :
          /\ Answer(r, TRUE)
          /\ log' = Append(log, Ev(Cur, r, TRUE))
          /\ UNCHANGED <<storage, sort>>
          /\ Throw(Cur)
    /\ UNCHANGED <<script, open, runs, deg_val, prev>>

\* browser.close(); in a finally block a pending exception propagates after it
DoClose ==
    /\ CanStep("close")
    /\ log' = Append(log, Ev(Cur, "ok", FALSE))
    /\ open' = open - 1
    /\ IF Cur.fin /\ exc
         THEN /\ pc' = Cur.err
              /\ phase' = IF Cur.err = 0 THEN "raised" ELSE "running"
              /\ code' = IF Cur.err = 0 THEN 1 ELSE code
              /\ exc' = FALSE
         ELSE Continue(Cur.nx)
    /\ UNCHANGED <<script, runs, storage, sort, deg_val, prev>>

DoReturn ==
    /\ CanStep("return")
    /\ log' = Append(log, Ev(Cur, "ok", FALSE))
    /\ Continue(0)
    /\ UNCHANGED <<script, open, runs, storage, sort, deg_val, prev>>

\* exit(1): SystemExit, which no handler on the way out catches
DoExit ==
    /\ CanStep("exit")
    /\ log' = Append(log, Ev(Cur, "ok", FALSE))
    /\ pc' = 0
    /\ phase' = "exited"
    /\ code' = 1
    /\ exc' = FALSE
    /\ UNCHANGED <<script, open, runs, storage, sort, deg_val, prev>>

\* raise e inside an except block
DoRaise ==
    /\ CanStep("raise")
    /\ log' = Append(log, Ev(Cur, "error", TRUE))
    /\ Throw(Cur)
    /\ UNCHANGED <<script, open, runs, storage, sort, deg_val, prev>>

Init ==
    /\ script = "none"
    /\ pc = 0
    /\ phase = "idle"
    /\ exc = FALSE
    /\ code = 0
    /\ log = <<>>
    /\ open = 0
    /\ runs = 0
    /\ storage = "none"
    /\ sort = "none"
    /\ deg_val = 0
    /\ prev = [log |-> <<>>, phase |-> "idle", code |-> 0]

Step ==
    \/ DoLaunch
    \/ DoSetup
    \/ DoNav
    \/ DoWait
    \/ DoSleep
    \/ DoAct
    \/ DoClick
    \/ DoAsk
    \/ DoCount
    \/ DoExpect
    \/ DoCmp
    \/ DoRead
    \/ DoTest
    \/ DoShot
    \/ DoSay
    \/ DoClose
    \/ DoReturn
    \/ DoExit
    \/ DoRaise

Next ==
    \/ \E s \in ScriptNames : Start(s)
    \/ Step

Spec == Init /\ [][Next]_vars

\* the scripts executed one after another, in any order
NextSeq ==
    \/ \E s \in ScriptNames : Start(s)
    \/ \E s \in ScriptNames : StartNext(s)
    \/ Step

SeqSpec == Init /\ [][NextSeq]_vars

\* a script is run, and then run again against a target that gives the same
\* responses
NextRerun ==
    \/ \E s \in ScriptNames : Start(s)
    \/ Rerun
    \/ Step

RerunSpec == Init /\ [][NextRerun]_vars

\* the interpreter executes the next statement, and every call on the page
\* returns or raises within its timeout
LiveSpec == Spec /\ WF_vars(Step)

TypeOK ==
    /\ script \in ScriptNames \cup {"none"}
    /\ pc \in Nat
    /\ phase \in {"idle", "running", "done", "raised", "exited"}
    /\ exc \in BOOLEAN
    /\ code \in {0, 1}
    /\ open \in Nat
    /\ runs \in 0..MaxRuns
    /\ storage \in {"none", "fresh", "seeded", "used"}
    /\ sort \in {"none", "name", "recent", "date"}
    /\ deg_val \in {0} \cup {ParseFloat(s) : s \in InputValues \ {""}}
    /\ prev.phase \in {"idle", "done", "raised", "exited"}
    /\ Running => pc \in DOMAIN Code

\* the record of a run never reaches the bound
LogWithinBound == Len(log) < MaxLog

(***************************************************************************)
(* Vocabulary of the properties: what the record of a run shows.           *)
(***************************************************************************)
Idx == 1..Len(log)

Launched == \E i \in Idx : log[i].k = "launch"

Closes == Cardinality({i \in Idx : log[i].k = "close"})

\* a navigation, wait, interaction or assertion step that raised
StepRaised(e) ==
    e.x /\ e.k \in {"goto", "wait", "act", "read", "click", "expect"}

\* an operation issued on the browser's page or context
PageOp(e) ==
    e.k \in {"setup", "goto", "wait", "act", "read", "click", "ask", "count",
              "expect", "cmp", "shot"}

\* a wait for an element state that expired
TimedOut(e) == e.x /\ e.k \in {"wait", "expect"}

\* a success message or a success screenshot
Success(e) == e.k \in {"say", "shot"} /\ e.role = "ok"

\* a failure message, a failure screenshot (attempted), or cleanup
FailureOrCleanup(e) ==
    \/ e.k \in {"say", "shot"} /\ e.role = "fail"
    \/ e.k \in {"close", "return", "raise"}

\* a check of the script that failed: an assertion raised, an awaited element
\* the script needs never appeared, or a compared value did not match
CheckFailed(e) ==
    \/ e.x /\ e.k \in {"wait", "expect"} /\ e.role = "req"
    \/ e.k \in {"cmp", "test"} /\ e.r = "mismatch"

\* log[j] is a further attempt of the click log[i]
SameClick(i, j) ==
    /\ i < j
    /\ log[i].k = "click"
    /\ log[j].k = "click"
    /\ log[i].a = log[j].a

(***************************************************************************)
(* The record of a run grows by one entry per statement, so every prefix   *)
(* of it is the record of an earlier state of the run: a property of all   *)
(* pairs "an earlier step, a later step" is stated as an invariant about   *)
(* the earlier steps and the latest step.                                  *)
(***************************************************************************)

(***************************************************************************)
(* C1: on every path that has launched the browser, browser.close() is     *)
(* called exactly once before the script ends: never twice, and never not  *)
(* at all once the script has ended.                                       *)
(***************************************************************************)
C1_CloseExactlyOnce ==
    /\ Closes <= 1
    /\ (Ended /\ Launched) => Closes = 1

(***************************************************************************)
(* C2: with the scripts executed one after another, at most one browser    *)
(* launched and not yet closed by browser.close() exists at any time.      *)
(***************************************************************************)
C2_AtMostOneSession == open <= 1

(***************************************************************************)
(* C3: an exception raised by a navigation, wait, interaction or assertion *)
(* step is caught inside the script: a failure message is printed, a       *)
(* failure screenshot is attempted, and the run does not end with the      *)
(* exception propagating out of the script.                                *)
(***************************************************************************)
C3_ExceptionsCaught ==
    Ended =>
        \A i \in Idx : StepRaised(log[i]) =>
            /\ phase # "raised"
            /\ \E j \in Idx : j > i /\ log[j].k = "say" /\ log[j].role = "fail"
            /\ \E j \in Idx : j > i /\ log[j].k = "shot" /\ log[j].role = "fail"

(***************************************************************************)
(* C4: the process of a script ends with exit status 0 only if none of its *)
(* checks failed.                                                          *)
(***************************************************************************)
C4_ExitZeroOnlyIfAllPassed ==
    (Ended /\ code = 0) => \A i \in Idx : ~CheckFailed(log[i])

(***************************************************************************)
(* C5: a check whose expected value does not match the page never raises:  *)
(* the mismatch is a result, and the run goes on to its cleanup.           *)
(***************************************************************************)
C5_MismatchNeverRaises ==
    \A i \in Idx :
        (log[i].k \in {"expect", "cmp", "test"} /\ log[i].r = "mismatch") =>
            /\ ~log[i].x
            /\ Ended => \E j \in Idx : j > i /\ log[j].k = "close"

(***************************************************************************)
(* C6, as stated: after a wait for an element state has expired, the run   *)
(* prints no success message and writes no success screenshot.             *)
(***************************************************************************)
C6_NoSuccessAfterAnyTimeout ==
    \A i, j \in Idx : (i < j /\ TimedOut(log[i])) => ~Success(log[j])

(***************************************************************************)
(* C6, amended: after a wait for an element state that the script needs    *)
(* (one outside the dialog / loading-screen handling whose except clause   *)
(* swallows the timeout) has expired, the run prints no success message    *)
(* and writes no success screenshot.                                       *)
(***************************************************************************)
C6_NoSuccessAfterRequiredTimeout ==
    \A i \in Idx :
        (i < Len(log) /\ TimedOut(log[i]) /\ log[i].role = "req")
            => ~Success(log[Len(log)])

\* a run that ended after a needed wait expired and its handler ran
C6_Witness ==
    /\ Ended
    /\ \E i, j \in Idx :
        /\ i < j
        /\ TimedOut(log[i])
        /\ log[i].role = "req"
        /\ log[j].k = "shot"
        /\ log[j].role = "fail"

(***************************************************************************)
(* C7: after page.goto has failed, the run executes no interaction and no  *)
(* assertion and produces no success message or screenshot: only a failure *)
(* message, a failure screenshot and cleanup follow.                       *)
(***************************************************************************)
C7_NothingAfterFailedGoto ==
    \A i \in Idx :
        (i < Len(log) /\ log[i].k = "goto" /\ log[i].x)
            => FailureOrCleanup(log[Len(log)])

\* a run that ended after a failed goto, its failure message and a return
C7_Witness ==
    /\ Ended
    /\ \E i, j \in Idx :
        /\ i < j
        /\ log[i].k = "goto"
        /\ log[i].x
        /\ log[j].k = "say"
        /\ log[j].role = "fail"
        /\ log[Len(log)].k = "return"

(***************************************************************************)
(* C8: a failed click is retried at most once, with force=true, only in    *)
(* verify_focus and verify_timeline_hover, and only when the failure is    *)
(* that the target is obscured; when the forced retry fails the error      *)
(* propagates out of the script.                                           *)
(***************************************************************************)
C8_RetryOnlyWhenObscured ==
    \A i \in Idx : (log[i].k = "click" /\ log[i].x) =>
        /\ Cardinality({j \in Idx : SameClick(i, j)}) <= 1
        /\ \A j \in Idx : SameClick(i, j) =>
            /\ log[j].force
            /\ script \in {"verify_focus", "verify_timeline_hover"}
            /\ log[i].r = "obscured"
            /\ (log[j].x /\ Ended) => phase = "raised"

(***************************************************************************)
(* C9: every operation on the page lies between the browser launch and     *)
(* browser.close(); in particular a failure screenshot is taken before     *)
(* the browser is closed.                                                  *)
(***************************************************************************)
C9_PageOpsWhileBrowserOpen ==
    (log # <<>> /\ PageOp(log[Len(log)])) =>
        /\ \E j \in Idx : j < Len(log) /\ log[j].k = "launch"
        /\ \A j \in Idx : j < Len(log) => log[j].k # "close"

\* a failing run whose failure screenshot was followed by browser.close()
C9_Witness ==
    /\ Ended
    /\ \E i, j \in Idx :
        /\ i < j
        /\ log[i].k = "shot"
        /\ log[i].role = "fail"
        /\ log[j].k = "close"

(***************************************************************************)
(* C10: every run of every script terminates: a started run eventually     *)
(* reaches an end state (normal completion or return, exit, or a           *)
(* propagated exception).                                                  *)
(***************************************************************************)
C10_EveryRunTerminates == Running ~> Ended

\* a run that ended although a navigation or a wait ran into its timeout
C10_Witness ==
    /\ Ended
    /\ \E i \in Idx : log[i].x /\ log[i].k \in {"goto", "wait"}

(***************************************************************************)
(* Runs of the scripts that perform no interaction step.                   *)
(***************************************************************************)
NoInteraction == {"verify_setup", "capture_screenshot"}

\* the run has ended, its navigation succeeded and every awaited element was
\* there
LoadedAtOnce ==
    /\ Ended
    /\ \E i \in Idx : log[i].k = "goto"
    /\ \A i \in Idx : log[i].k \in {"goto", "wait"} => ~log[i].x

\* the run is a pass
Pass ==
    /\ \E i \in Idx : log[i].k = "say" /\ log[i].role = "ok"
    /\ \E i \in Idx : log[i].k = "shot" /\ log[i].role = "ok" /\ ~log[i].x
    /\ \A i \in Idx : ~(log[i].k = "shot" /\ log[i].role = "fail")
    /\ Closes = 1

\* no page.screenshot call of the run raised
ShotsReturned == \A i \in Idx : log[i].k = "shot" => ~log[i].x

Artifacts(s) ==
    {Scripts(s)[l].a : l \in {m \in DOMAIN Scripts(s) : Scripts(s)[m].k = "shot"}}

\* the latest statement of the run wrote a screenshot
JustWrote ==
    /\ log # <<>>
    /\ log[Len(log)].k = "shot"
    /\ ~log[Len(log)].x

(***************************************************************************)
(* C12: no two different scripts write the same artifact path: the path a  *)
(* run has just written is written by no screenshot statement of any other *)
(* script, so no run overwrites an artifact produced by another script.    *)
(***************************************************************************)
C12_NoSharedArtifactPath ==
    JustWrote =>
        \A t \in ScriptNames \ {script} : log[Len(log)].a \notin Artifacts(t)

(***************************************************************************)
(* A script run twice (RerunSpec): prev is the first run, log the second.  *)
(***************************************************************************)
\* the paths of the screenshots written, in the order they were written
Written(l) ==
    LET W(e) == e.k = "shot" /\ ~e.x
        shots == SelectSeq(l, W)
    IN  [i \in 1..Len(shots) |-> shots[i].a]

\* the same statement with the same result
SameStep(e, f) == e.ln = f.ln /\ e.r = f.r /\ e.x = f.x

\* the first navigation of the run is the latest statement executed
FirstGoto ==
    /\ log # <<>>
    /\ log[Len(log)].k = "goto"
    /\ \A i \in Idx : i < Len(log) => log[i].k # "goto"

\* the script has a statement that seeds localStorage or mock globals
Seeds(s) ==
    \E l \in DOMAIN Scripts(s) :
        Scripts(s)[l].k = "setup" /\ Scripts(s)[l].a \in SeedScripts

Clicked(i, S) == log[i].k = "click" /\ ~log[i].x /\ log[i].a \in S

\* the file manager has been opened on the page loaded last
FileManagerOpen ==
    \E i \in Idx :
        /\ Clicked(i, {"label Open File Manager", "title File Manager"})
        /\ \A j \in Idx : j > i => log[j].k # "goto"

\* a sort button has been clicked
SortClicked ==
    \E i \in Idx : Clicked(i, {"button Recent", "button Name", "button Date"})

Reached(l) == \E i \in Idx : log[i].ln = l

\* a statement between source lines a and b raised
RaisedIn(a, b) == \E i \in Idx : log[i].x /\ log[i].ln >= a /\ log[i].ln <= b

GotoSucceeded == \E i \in Idx : log[i].k = "goto" /\ ~log[i].x

(***************************************************************************)
(* C15: in verify_frontend, once page.goto has succeeded, whatever raises  *)
(* in the dialog dismissal or in a section check, every run attempts the   *)
(* PathLineSection, WaitSection and RotateSection checks and ends with     *)
(* browser.close().                                                        *)
(***************************************************************************)
C15_SectionsIndependent ==
    (script = "verify_frontend" /\ Ended /\ GotoSucceeded) =>
        /\ Reached(56)
        /\ Reached(87)
        /\ Reached(123)
        /\ log[Len(log)].k = "close"
        /\ phase = "done"

\* a run in which the dialog dismissal and the first two section checks each
\* raised, and the RotateSection check was still attempted
C15_Witness ==
    /\ script = "verify_frontend"
    /\ Ended
    /\ RaisedIn(27, 41)
    /\ RaisedIn(56, 74)
    /\ RaisedIn(87, 112)
    /\ Reached(123)
    /\ log[Len(log)].k = "close"

(***************************************************************************)
(* The scripts whose main block calls a verification function inside       *)
(* try / except / finally.                                                 *)
(***************************************************************************)
TryMain == {"verify_command_palette", "verify_contact", "verify_filemanager_sort"}

\* messages printed so far
Oks == Cardinality({i \in Idx : log[i].k = "say" /\ log[i].role = "ok"})
Fails == Cardinality({i \in Idx : log[i].k = "say" /\ log[i].role = "fail"})

\* a statement of the verification function raised (the statements of the
\* except clause, the failure screenshot and raise e, are not the function's)
FnRaised ==
    \E i \in Idx :
        /\ log[i].x
        /\ log[i].k # "raise"
        /\ ~(log[i].k = "shot" /\ log[i].role = "fail")

(***************************************************************************)
(* C16: in verify_command_palette, verify_contact and                      *)
(* verify_filemanager_sort a run never prints both the success message and *)
(* 'Verification failed'; a run that entered the try block has printed     *)
(* exactly one of them when it ends, the success message if and only if    *)
(* the verification function returned without raising.                     *)
(***************************************************************************)
C16_ExactlyOneMessage ==
    script \in TryMain =>
        /\ Oks + Fails <= 1
        /\ (Ended /\ Reached(Entry(script))) =>
              /\ Oks + Fails = 1
              /\ Oks = 1 <=> ~FnRaised

\* verify_contact: an expect failed, 'Verification failed' was printed, the
\* exception was raised again and the browser closed
C16_Witness ==
    /\ script = "verify_contact"
    /\ Ended
    /\ FnRaised
    /\ Fails = 1
    /\ Oks = 0
    /\ phase = "raised"
    /\ log[Len(log)].k = "close"

(***************************************************************************)
(* verify_fix_v2: the unit toggle.  Line 57 reads deg_val, line 81 prints  *)
(* PASS; lines 65 and later fill the max-angular-acceleration input, close *)
(* the Settings dialog and write the screenshot.                           *)
(***************************************************************************)
\* the value read after clicking deg/s has been read
DegRead == \E i \in Idx : log[i].ln = 57 /\ ~log[i].x

\* it is within 0.1 of 180
Within == Abs(deg_val - 1800) <= 1

(***************************************************************************)
(* C17: in verify_fix_v2, PASS is printed only on runs in which the value  *)
(* read after clicking deg/s is within 0.1 of 180; when it is not, the     *)
(* run executes nothing after exit(1) at line 62 (no fill of the           *)
(* max-angular-acceleration input, no close of the Settings dialog, no     *)
(* screenshot) and the process ends with status 1.                         *)
(***************************************************************************)
C17_PassOnlyWithin ==
    script = "verify_fix_v2" =>
        /\ Reached(81) => (DegRead /\ Within)
        /\ (DegRead /\ ~Within) =>
              /\ \A i \in Idx : log[i].ln <= 62 /\ log[i].k # "shot"
              /\ Ended => (phase = "exited" /\ code = 1)

\* a run that read 179.8, printed FAIL and left through exit(1)
C17_Witness ==
    /\ script = "verify_fix_v2"
    /\ DegRead
    /\ deg_val = 1798
    /\ phase = "exited"
    /\ code = 1
    /\ log[Len(log)].ln = 62

(***************************************************************************)
(* verify_history: line 29 waits for the title, lines 49 and 52 click      *)
(* 'Add Path after start' and 'Add Wait after start', line 56 writes       *)
(* debug_click_fail.png, line 61 clicks 'History', line 69 writes          *)
(* verification_history.png.                                               *)
(***************************************************************************)
\* the statement at source line l returned / raised
Returned(l) == \E i \in Idx : log[i].ln = l /\ ~log[i].x
Raised(l) == \E i \in Idx : log[i].ln = l /\ log[i].x

\* a run of verify_history that has ended and had found the title
HistoryLoaded == script = "verify_history" /\ Ended /\ Returned(29)

(***************************************************************************)
(* C18, as stated: given that navigation succeeded and the title appeared, *)
(* verification_history.png is written if and only if the History click    *)
(* succeeded; a failed Add Path / Add Wait click does not prevent the      *)
(* History click from being attempted; a failed History click ends the run *)
(* without the final screenshot.                                           *)
(***************************************************************************)
C18_FinalShotIffHistoryClicked ==
    HistoryLoaded =>
        /\ Returned(69) <=> Returned(61)
        /\ (Raised(49) \/ Raised(52)) => (Reached(56) /\ Reached(61))
        /\ Raised(61) => ~Reached(69)

(***************************************************************************)
(* C18, amended: given that navigation succeeded and the title appeared,   *)
(* the final screenshot is attempted if and only if the History click      *)
(* succeeded, and written if moreover its page.screenshot call returns; a  *)
(* failed Add Path / Add Wait click attempts debug_click_fail.png and,     *)
(* unless that page.screenshot call itself raises (which ends the run),    *)
(* the History click is attempted; a failed History click ends the run     *)
(* without the final screenshot.                                           *)
(***************************************************************************)
C18_FinalShotAttemptedIffHistoryClicked ==
    HistoryLoaded =>
        /\ Reached(69) <=> Returned(61)
        /\ Returned(69) => Returned(61)
        /\ (Raised(49) \/ Raised(52)) =>
              /\ Reached(56)
              /\ Returned(56) => Reached(61)
              /\ Raised(56) => (phase = "raised" /\ ~Reached(61))
        /\ Raised(61) => ~Reached(69)

\* the Add Path click failed, debug_click_fail.png was written, the History
\* click succeeded and verification_history.png was written
C18_Witness ==
    /\ HistoryLoaded
    /\ Raised(49)
    /\ Returned(56)
    /\ Returned(61)
    /\ Returned(69)
    /\ log[Len(log)].k = "close"

(***************************************************************************)
(* verify_rotate: the try block spans lines 10-63; lines 30, 47 and 61     *)
(* write the numbered screenshots, line 63 prints 'Verification script     *)
(* completed.', line 67 (except clause) writes error.png.                  *)
(***************************************************************************)
\* the statement at line a returned before the statement at line b did
Before(a, b) ==
    \E i, j \in Idx :
        /\ i < j
        /\ log[i].ln = a
        /\ ~log[i].x
        /\ log[j].ln = b
        /\ ~log[j].x

(***************************************************************************)
(* C19: in verify_rotate the numbered screenshots are written in the order *)
(* 1, 2, 3, each only after the one before; error.png is attempted exactly *)
(* on the runs in which a statement of the try block raised, and no        *)
(* numbered screenshot is written after it; 'Verification script           *)
(* completed.' is printed only after all three numbered screenshots have   *)
(* been written.                                                           *)
(***************************************************************************)
C19_NumberedShotsInOrder ==
    script = "verify_rotate" =>
        /\ Returned(47) => Before(30, 47)
        /\ Returned(61) => Before(47, 61)
        /\ Reached(63) => (Before(30, 63) /\ Before(47, 63) /\ Before(61, 63))
        /\ Reached(67) => RaisedIn(11, 63)
        /\ (Ended /\ RaisedIn(11, 63)) => Reached(67)
        /\ \A i, j \in Idx :
              (i < j /\ log[i].ln = 67) => log[j].ln \notin {30, 47, 61, 63}

\* a run that wrote the first two numbered screenshots, then failed in the
\* third part and attempted error.png
C19_Witness ==
    /\ script = "verify_rotate"
    /\ Ended
    /\ Before(30, 47)
    /\ RaisedIn(52, 61)
    /\ Reached(67)
    /\ ~Reached(63)
    /\ log[Len(log)].k = "close"

(***************************************************************************)
(* The scripts that detect and dismiss the onboarding / What's New dialog  *)
(* inside try / except before their main steps.                            *)
(***************************************************************************)
DialogScripts ==
    {"verify_feature", "verify_script_v2", "verify_settings", "verify_fix_v2"}

\* the lines of the statements inside the try blocks of the dialog handling
DialogLines(s) ==
    CASE s = "verify_feature" -> 18..27
      [] s = "verify_script_v2" -> 22..27
      [] s = "verify_settings" -> 15..25
      [] s = "verify_fix_v2" -> 17..20
      [] OTHER -> {}

\* the line that opens the menu or dialog under test
MainLine(s) ==
    CASE s = "verify_feature" -> 33
      [] s = "verify_script_v2" -> 36
      [] s = "verify_settings" -> 38
      [] s = "verify_fix_v2" -> 33
      [] OTHER -> 0

\* log[i] is an exception raised by the dialog handling
DialogRaised(i) == log[i].x /\ log[i].ln \in DialogLines(script)

\* verify_fix_v2 checks the loading screen (lines 27-29, outside any try)
\* between the dialog handling and its main steps
LoadingCheckRaised(i) ==
    /\ script = "verify_fix_v2"
    /\ \E j \in Idx : j > i /\ log[j].x /\ log[j].ln \in {27, 29}

(***************************************************************************)
(* C20, as stated: in verify_feature, verify_script_v2, verify_settings    *)
(* and verify_fix_v2 an exception raised while detecting or dismissing the *)
(* dialog is swallowed: it does not end the run, and the main steps are    *)
(* executed afterwards.                                                    *)
(***************************************************************************)
C20_MainStepsAlwaysFollow ==
    script \in DialogScripts =>
        \A i \in Idx : DialogRaised(i) =>
            /\ i = Len(log) => Running
            /\ Ended => Reached(MainLine(script))

(***************************************************************************)
(* C20, amended: in verify_feature, verify_script_v2, verify_settings and  *)
(* verify_fix_v2 an exception raised while detecting or dismissing the     *)
(* dialog is swallowed: the run goes on with the handler's print, and it   *)
(* does not end before the main steps have been started, except through an *)
(* exception of the loading-screen check of verify_fix_v2 that follows the *)
(* dialog handling.                                                        *)
(***************************************************************************)
C20_DialogExceptionsSwallowed ==
    script \in DialogScripts =>
        \A i \in Idx : DialogRaised(i) =>
            /\ i = Len(log) => Running
            /\ i < Len(log) => log[i + 1].k = "say"
            /\ Ended => (Reached(MainLine(script)) \/ LoadingCheckRaised(i))

\* verify_fix_v2: closing the What's New dialog raised, and the run went on
\* to print PASS
C20_Witness ==
    /\ script = "verify_fix_v2"
    /\ Ended
    /\ \E i \in Idx : DialogRaised(i)
    /\ Reached(33)
    /\ Reached(81)

\* no statement of the run raised, a caught exception included
NoStepRaised == \A i \in Idx : ~log[i].x

\* the number of page.screenshot calls that wrote path a
TimesWritten(a) ==
    Cardinality({i \in Idx : log[i].k = "shot" /\ ~log[i].x /\ log[i].a = a})

\* the clicks on the 'Add Control Point' button that returned
AddControlPointClicks ==
    Cardinality({i \in Idx : Clicked(i, {"label Add Control Point"})})

\* move_up_btns.count() returned at least two
TwoMoveUpButtons ==
    \E i \in Idx :
        /\ log[i].k = "count"
        /\ log[i].a = "label Move control point up"
        /\ ~log[i].x
        /\ Number(log[i].r) >= 2

\* log[j] wrote focus_visible.png after the second button was focused
FocusedBefore(j) ==
    \E i \in Idx :
        /\ i < j
        /\ log[i].k = "act"
        /\ log[i].a = "focus Move control point up nth(1)"
        /\ ~log[i].x

(***************************************************************************)
(* C21: in verify_focus, focus_visible.png is written only when at least   *)
(* two 'Move control point up' buttons were counted and only after the     *)
(* second one has been focused; a run that ended with no statement raising *)
(* has written exactly one of focus_visible.png and debug.png (debug.png   *)
(* exactly when fewer than two buttons were counted) and has clicked 'Add  *)
(* Control Point' exactly twice or not at all.                             *)
(***************************************************************************)
C21_ExactlyOneFocusArtifact ==
    script = "verify_focus" =>
        /\ \A j \in Idx :
              (/\ log[j].k = "shot"
               /\ ~log[j].x
               /\ log[j].a = "verification/focus_visible.png")
                 => (TwoMoveUpButtons /\ FocusedBefore(j))
        /\ (Ended /\ NoStepRaised) =>
              /\ TimesWritten("verification/focus_visible.png")
                    + TimesWritten("verification/debug.png") = 1
              /\ TimesWritten("verification/debug.png") = 1
                    <=> ~TwoMoveUpButtons
              /\ AddControlPointClicks \in {0, 2}

\* a run without a raise that clicked 'Add Control Point' twice, counted at
\* least two buttons and wrote focus_visible.png
C21_Witness ==
    /\ script = "verify_focus"
    /\ phase = "done"
    /\ NoStepRaised
    /\ AddControlPointClicks = 2
    /\ TwoMoveUpButtons
    /\ TimesWritten("verification/focus_visible.png") = 1
    /\ TimesWritten("verification/debug.png") = 0

\* a run without a raise that found no 'Add Control Point' button, counted
\* fewer than two buttons and wrote debug.png
C21_DebugRun ==
    /\ script = "verify_focus"
    /\ phase = "done"
    /\ NoStepRaised
    /\ AddControlPointClicks = 0
    /\ ~TwoMoveUpButtons
    /\ TimesWritten("verification/debug.png") = 1

====
